---- MODULE Spec2Model ----
(***************************************************************************)
(* Model of gen-sql-keywords.py: read tree-sitter-sql/grammar.js, collect  *)
(* the first group of every match of  kw\("([\w ]+)"\)  and write the      *)
(* list to src/sql.ts.  Texts are sequences of one-character strings.      *)
(***************************************************************************)
EXTENDS Integers, Sequences, FiniteSets, TLC

\* ---------------------------------------------------------------- bounds
MaxFrags == 3      \* an input text is a concatenation of at most MaxFrags fragments

\* ------------------------------------------------------------ characters
\* the characters of the model's alphabet that \w matches
WordChars == {"k", "w", "a", "b", "x", "_", "1"}

\* the character class [\w ] of the pattern
InClass(c) == c \in WordChars \/ c = " "

\* the literal prefix  kw\("  of the pattern
Open == <<"k", "w", "(", "\"">>

\* the literal suffix  "\)  of the pattern
Close == <<"\"", ")">>

\* 'export const KEYWORDS = [\n'
Header ==
  <<"e", "x", "p", "o", "r", "t", " ", "c", "o", "n", "s", "t", " ",
    "K", "E", "Y", "W", "O", "R", "D", "S", " ", "=", " ", "[", "\n">>

\* ']\n'
Footer == <<"]", "\n">>

\* the element chunk, were the trailing comma forgotten
ElementNoComma(g) == <<" ", " ", "'">> \o g \o <<"'", "\n">>

\* "  '" + m.group(1) + "',\n"
Element(g) == <<" ", " ", "'">> \o g \o <<"'", ",", "\n">>

\* ----------------------------------------------------- the regex engine
\* the literal lit is found in t at index i
LitAt(t, i, lit) ==
  /\ i + Len(lit) - 1 <= Len(t)
  /\ \A j \in 1..Len(lit) : t[i + j - 1] = lit[j]

\* the repeat, were the class "anything but a double quote"
RECURSIVE RunLenAnyButQuote(_, _)
RunLenAnyButQuote(t, i) ==
  IF i <= Len(t) /\ t[i] # "\"" THEN 1 + RunLenAnyButQuote(t, i + 1) ELSE 0

\* greedy repeat: the number of class characters from index i on
RECURSIVE RunLen(_, _)
RunLen(t, i) ==
  IF i <= Len(t) /\ InClass(t[i]) THEN 1 + RunLen(t, i + 1) ELSE 0

\* the backtracking, were the repeat [\w ]* instead of [\w ]+
RECURSIVE BacktrackStar(_, _, _)
BacktrackStar(t, g, n) ==
  IF n < 0 THEN 0
  ELSE IF LitAt(t, g + n, Close) THEN g + n + Len(Close)
  ELSE BacktrackStar(t, g, n - 1)

\* [\w ]+ took n characters from g on; try the suffix, else give one back.
\* The result is the index after the match, 0 when there is none.
RECURSIVE Backtrack(_, _, _)
Backtrack(t, g, n) ==
  IF n < 1 THEN 0
  ELSE IF LitAt(t, g + n, Close) THEN g + n + Len(Close)
  ELSE Backtrack(t, g, n - 1)

\* the pattern anchored at index s: the index after the match, or 0
MatchAt(t, s) ==
  IF LitAt(t, s, Open)
  THEN Backtrack(t, s + Len(Open), RunLen(t, s + Len(Open)))
  ELSE 0

\* the exhausted iterator
NoMatch == [start |-> 0, end |-> 0, group |-> <<>>]

\* the search, were the pattern  \bkw\("([\w ]+)"\)
RECURSIVE SearchBoundary(_, _)
SearchBoundary(t, pos) ==
  IF pos > Len(t) THEN NoMatch
  ELSE LET e == MatchAt(t, pos) IN
       IF e # 0 /\ (pos = 1 \/ t[pos - 1] \notin WordChars)
       THEN [start |-> pos, end |-> e,
             group |-> SubSeq(t, pos + Len(Open), e - Len(Close) - 1)]
       ELSE SearchBoundary(t, pos + 1)

\* the scanner's search: the leftmost match starting at pos or later
RECURSIVE Search(_, _)
Search(t, pos) ==
  IF pos > Len(t) THEN NoMatch
  ELSE LET e == MatchAt(t, pos) IN
       IF e # 0
       THEN [start |-> pos, end |-> e,
             group |-> SubSeq(t, pos + Len(Open), e - Len(Close) - 1)]
       ELSE Search(t, pos + 1)

\* ''.join(chunks)
RECURSIVE Join(_)
Join(cs) == IF cs = <<>> THEN <<>> ELSE Head(cs) \o Join(Tail(cs))

\* ------------------------------------------------------------ the files
RECURSIVE Concat(_)
Concat(fs) == IF fs = <<>> THEN <<>> ELSE Head(fs) \o Concat(Tail(fs))

\* pieces of grammar.js the input texts are built from
Fragments ==
  { <<"k", "w", "(", "\"", "a", "\"", ")">>,                 \* kw("a")
    <<"k", "w", "(", "\"", "a", " ", "b", "\"", ")">>,       \* kw("a b")
    <<"k", "w", "(", "'", "a", "'", ")">>,                   \* kw('a')
    <<"k", "w", "(", "a", ")">>,                             \* kw(a)
    <<"k", "w", "(", "\"", "\"", ")">>,                      \* kw("")
    <<"k", "w", "(", "\"", "a", "-", "b", "\"", ")">>,       \* kw("a-b")
    <<"k", "w", "(", " ", "\"", "a", "\"", ")">>,            \* kw( "a")
    <<"k", "w", "(", "\"", "a", "\"", " ", ")">>,            \* kw("a" )
    <<"k", "w", "(", "\"">>,                                 \* kw("
    <<"\"", ")">>,                                           \* ")
    <<"_", "1", "x">>,                                       \* _1x
    <<"'", "\\", "\n">> }                                    \* a quote, a backslash, a newline

FragSeqs == UNION { [1..n -> Fragments] : n \in 0..MaxFrags }

\* the contents grammar.js can have
Texts == { Concat(fs) : fs \in FragSeqs }

File(data) == [exists |-> TRUE, readable |-> TRUE, data |-> data]
Missing == [exists |-> FALSE, readable |-> FALSE, data |-> <<>>]
Unreadable == [exists |-> TRUE, readable |-> FALSE, data |-> <<>>]

\* what src/sql.ts can hold before the first run
Unrelated == <<"/", "/", " ", "t", "o", "d", "o", "\n">>
Stale == Header \o Element(<<"o", "l", "d">>) \o Footer
DestInits == { Missing, File(<<>>), File(Unrelated), File(Stale) }

\* ---------------------------------------------------------------- state
VARIABLES
  inputFile,    \* tree-sitter-sql/grammar.js
  dest,         \* src/sql.ts
  pc,           \* the statement the interpreter is at
  text,         \* the variable text
  chunks,       \* the variable chunks
  pos,          \* where the finditer scanner resumes
  m,            \* the loop variable m
  err,          \* the exception that ended the run, "none" if none
  io,           \* the file operations of the current run, in order
  destBefore,   \* src/sql.ts as it was when the current run started
  written       \* the contents write_text has written so far

vars == <<inputFile, dest, pc, text, chunks, pos, m, err, io, destBefore, written>>

Init ==
  /\ inputFile \in { File(t) : t \in Texts } \cup { Missing, Unreadable }
  /\ dest \in DestInits
  /\ pc = "idle"
  /\ text = <<>>
  /\ chunks = <<>>
  /\ pos = 1
  /\ m = NoMatch
  /\ err = "none"
  /\ io = <<>>
  /\ destBefore = dest
  /\ written = {}

\* python gen-sql-keywords.py
Invoke ==
  /\ pc \in {"idle", "done", "failed"}
  /\ pc' = "read"
  /\ text' = <<>>
  /\ chunks' = <<>>
  /\ pos' = 1
  /\ m' = NoMatch
  /\ err' = "none"
  /\ io' = <<>>
  /\ destBefore' = dest
  /\ UNCHANGED <<inputFile, dest, written>>

\* text = Path("tree-sitter-sql/grammar.js").read_text()
ReadText ==
  /\ pc = "read"
  /\ inputFile.exists /\ inputFile.readable
  /\ text' = inputFile.data
  /\ io' = Append(io, "read")
  /\ pc' = "chunks"
  /\ UNCHANGED <<inputFile, dest, chunks, pos, m, err, destBefore, written>>

\* the failing read, were src/sql.ts opened for writing before the read
ReadTextFailTruncating ==
  /\ pc = "read"
  /\ ~(inputFile.exists /\ inputFile.readable)
  /\ err' = IF inputFile.exists THEN "PermissionError" ELSE "FileNotFoundError"
  /\ io' = Append(io, "read")
  /\ dest' = File(<<>>)
  /\ pc' = "failed"
  /\ UNCHANGED <<inputFile, text, chunks, pos, m, destBefore, written>>

\* read_text() raises: the script ends with a traceback
ReadTextFail ==
  /\ pc = "read"
  /\ ~(inputFile.exists /\ inputFile.readable)
  /\ err' = IF inputFile.exists THEN "PermissionError" ELSE "FileNotFoundError"
  /\ io' = Append(io, "read")
  /\ pc' = "failed"
  /\ UNCHANGED <<inputFile, dest, text, chunks, pos, m, destBefore, written>>

\* chunks = []; chunks.append('export const KEYWORDS = [\n')
InitChunks ==
  /\ pc = "chunks"
  /\ chunks' = <<Header>>
  /\ pos' = 1
  /\ pc' = "for"
  /\ UNCHANGED <<inputFile, dest, text, m, err, io, destBefore, written>>

\* for m in re.finditer(...): the iterator yields the next match
ForNext ==
  /\ pc = "for"
  /\ Search(text, pos) # NoMatch
  /\ m' = Search(text, pos)
  /\ pos' = m'.end
  /\ pc' = "body"
  /\ UNCHANGED <<inputFile, dest, text, chunks, err, io, destBefore, written>>

\* the end of the loop, were an empty keyword list rejected
ForEndStrict ==
  /\ pc = "for"
  /\ Search(text, pos) = NoMatch
  /\ pc' = IF Len(chunks) = 1 THEN "failed" ELSE "close"
  /\ err' = IF Len(chunks) = 1 THEN "ValueError" ELSE err
  /\ UNCHANGED <<inputFile, dest, text, chunks, pos, m, io, destBefore, written>>

\* for m in re.finditer(...): the iterator is exhausted
ForEnd ==
  /\ pc = "for"
  /\ Search(text, pos) = NoMatch
  /\ pc' = "close"
  /\ UNCHANGED <<inputFile, dest, text, chunks, pos, m, err, io, destBefore, written>>

\* the loop body, were it to skip a keyword already collected
BodyDedup ==
  /\ pc = "body"
  /\ chunks' = IF \E i \in DOMAIN chunks : chunks[i] = Element(m.group)
               THEN chunks ELSE Append(chunks, Element(m.group))
  /\ pc' = "for"
  /\ UNCHANGED <<inputFile, dest, text, pos, m, err, io, destBefore, written>>

\* chunks.append("  '" + m.group(1) + "',\n")
Body ==
  /\ pc = "body"
  /\ chunks' = Append(chunks, Element(m.group))
  /\ pc' = "for"
  /\ UNCHANGED <<inputFile, dest, text, pos, m, err, io, destBefore, written>>

\* the closing chunk, were its newline forgotten
CloseListNoNewline ==
  /\ pc = "close"
  /\ chunks' = Append(chunks, <<"]">>)
  /\ pc' = "write"
  /\ UNCHANGED <<inputFile, dest, text, pos, m, err, io, destBefore, written>>

\* chunks.append(']\n')
CloseList ==
  /\ pc = "close"
  /\ chunks' = Append(chunks, Footer)
  /\ pc' = "write"
  /\ UNCHANGED <<inputFile, dest, text, pos, m, err, io, destBefore, written>>

\* the write, were the file opened in append mode
WriteTextAppend ==
  /\ pc = "write"
  /\ dest' = File(dest.data \o Join(chunks))
  /\ written' = written \cup {dest.data \o Join(chunks)}
  /\ io' = Append(io, "write")
  /\ pc' = "done"
  /\ UNCHANGED <<inputFile, text, chunks, pos, m, err, destBefore>>

\* the write, were the file overwritten in place without truncation
WriteTextInPlace ==
  /\ pc = "write"
  /\ dest' = File(Join(chunks)
                  \o SubSeq(dest.data, Len(Join(chunks)) + 1, Len(dest.data)))
  /\ written' = written \cup {Join(chunks)}
  /\ io' = Append(io, "write")
  /\ pc' = "done"
  /\ UNCHANGED <<inputFile, text, chunks, pos, m, err, destBefore>>

\* Path("src/sql.ts").write_text(''.join(chunks))
WriteText ==
  /\ pc = "write"
  /\ dest' = File(Join(chunks))
  /\ written' = written \cup {Join(chunks)}
  /\ io' = Append(io, "write")
  /\ pc' = "done"
  /\ UNCHANGED <<inputFile, text, chunks, pos, m, err, destBefore>>

\* write_text() raises: src/ is missing or not writable
WriteTextFail ==
  /\ pc = "write"
  /\ err' = "OSError"
  /\ io' = Append(io, "write")
  /\ pc' = "failed"
  /\ UNCHANGED <<inputFile, dest, text, chunks, pos, m, destBefore, written>>

Next ==
  \/ Invoke
  \/ ReadText
  \/ ReadTextFail
  \/ InitChunks
  \/ ForNext
  \/ ForEnd
  \/ Body
  \/ CloseList
  \/ WriteText
  \/ WriteTextFail

Spec == Init /\ [][Next]_vars

\* ------------------------------------------- vocabulary of the properties
\* a character a keyword may consist of: letter, digit, underscore, space
KeywordChar(c) == c \in {"k", "w", "a", "b", "x", "_", "1", " "}

Marker == <<"k", "w", "(">>

\* n keyword characters follow  kw("  at i, and  ")  follows them
ShapeAt(t, i, n) ==
  /\ LitAt(t, i, Marker)
  /\ i + 3 <= Len(t) /\ t[i + 3] = "\""
  /\ \A j \in 1..n : i + 3 + j <= Len(t) /\ KeywordChar(t[i + 3 + j])
  /\ i + 5 + n <= Len(t)
  /\ t[i + 4 + n] = "\"" /\ t[i + 5 + n] = ")"

\* a pattern occurrence starts at index i of t
WellFormedAt(t, i) ==
  LitAt(t, i, Marker) /\ \E n \in 1..(Len(t) - i) : ShapeAt(t, i, n)

\* the quoted text of the occurrence at i
KeywordAt(t, i) ==
  LET n == CHOOSE k \in 1..(Len(t) - i) : ShapeAt(t, i, k)
  IN  SubSeq(t, i + 4, i + 3 + n)

\* the keywords of the occurrences from index i on, in order of appearance
RECURSIVE OccurrencesFrom(_, _)
OccurrencesFrom(t, i) ==
  IF i > Len(t) THEN <<>>
  ELSE IF WellFormedAt(t, i)
       THEN <<KeywordAt(t, i)>> \o OccurrencesFrom(t, i + 1)
       ELSE OccurrencesFrom(t, i + 1)

Occurrences(t) == OccurrencesFrom(t, 1)

\* the lines of a file, without their newlines
RECURSIVE LinesFrom(_, _, _)
LinesFrom(d, i, cur) ==
  IF i > Len(d) THEN (IF cur = <<>> THEN <<>> ELSE <<cur>>)
  ELSE IF d[i] = "\n" THEN <<cur>> \o LinesFrom(d, i + 1, <<>>)
  ELSE LinesFrom(d, i + 1, Append(cur, d[i]))

FileLines(d) == LinesFrom(d, 1, <<>>)

\* how often the character c occurs in d
RECURSIVE CountChar(_, _)
CountChar(d, c) ==
  IF d = <<>> THEN 0
  ELSE (IF Head(d) = c THEN 1 ELSE 0) + CountChar(Tail(d), c)

\* the string an element line quotes; a lone newline if it is no element line
ElementOfLine(l) ==
  IF /\ Len(l) >= 5
     /\ SubSeq(l, 1, 3) = <<" ", " ", "'">>
     /\ SubSeq(l, Len(l) - 1, Len(l)) = <<"'", ",">>
  THEN SubSeq(l, 4, Len(l) - 2)
  ELSE <<"\n">>

\* the elements of the list a generated file holds: the lines between the
\* opening line and the closing line
ListElements(d) ==
  LET L == FileLines(d) IN
  IF Len(L) < 2 THEN <<<<"\n">>>>
  ELSE [i \in 1..(Len(L) - 2) |-> ElementOfLine(L[i + 1])]

HeaderLine == SubSeq(Header, 1, Len(Header) - 1)

\* C1: when a run has written the list, its elements are exactly the
\* keywords of the pattern occurrences of the input, same number, same
\* order, duplicates kept.
C1_ElementsAreOccurrences ==
  pc = "done" => ListElements(dest.data) = Occurrences(inputFile.data)

C1_Witness ==
  /\ pc = "done"
  /\ Len(Occurrences(inputFile.data)) = 3
  /\ Occurrences(inputFile.data)[1] = Occurrences(inputFile.data)[3]
  /\ Occurrences(inputFile.data)[1] # Occurrences(inputFile.data)[2]
  /\ ListElements(dest.data) = Occurrences(inputFile.data)

\* ---- shapes that resemble an occurrence but are none
\* kw( is not followed by a double quote: kw('a'), kw(a), kw( "a")
NotQuotedAt(t, i) ==
  LitAt(t, i, Marker) /\ i + 3 <= Len(t) /\ t[i + 3] # "\""

\* kw("")
EmptyQuotesAt(t, i) ==
  LitAt(t, i, Marker) /\ i + 4 <= Len(t) /\ t[i + 3] = "\"" /\ t[i + 4] = "\""

\* kw("a-b"): a character that is no keyword character inside the quotes
BadCharAt(t, i) ==
  /\ LitAt(t, i, Marker) /\ i + 3 <= Len(t) /\ t[i + 3] = "\""
  /\ \E n \in 0..Len(t) :
       /\ i + 4 + n <= Len(t)
       /\ \A j \in 1..n : KeywordChar(t[i + 3 + j])
       /\ ~KeywordChar(t[i + 4 + n]) /\ t[i + 4 + n] # "\""

\* kw("a"x: something between the closing quote and the parenthesis
BadCloseAt(t, i) ==
  /\ LitAt(t, i, Marker) /\ i + 3 <= Len(t) /\ t[i + 3] = "\""
  /\ \E n \in 1..Len(t) :
       /\ i + 5 + n <= Len(t)
       /\ \A j \in 1..n : KeywordChar(t[i + 3 + j])
       /\ t[i + 4 + n] = "\"" /\ t[i + 5 + n] # ")"

NearMissAt(t, i) ==
  NotQuotedAt(t, i) \/ EmptyQuotesAt(t, i) \/ BadCharAt(t, i) \/ BadCloseAt(t, i)

\* the indices of t where the marker kw( starts
MarkerStarts(t) == { i \in 1..Len(t) : LitAt(t, i, Marker) }

\* C2: no match the loop handles starts at a near miss (single quotes, no
\* quotes, empty quotes, a foreign character inside the quotes, something
\* between parenthesis and quote), and the written list has no more
\* elements than the input has markers that are not near misses.
C2_NearMissesNotCaptured ==
  /\ pc = "body" => ~NearMissAt(text, m.start)
  /\ pc = "done" =>
       Len(ListElements(dest.data)) <=
         Cardinality({ i \in MarkerStarts(inputFile.data) :
                         ~NearMissAt(inputFile.data, i) })

C2_Witness ==
  /\ pc = "done"
  /\ \E i \in MarkerStarts(text) : NotQuotedAt(text, i)
  /\ \E i \in MarkerStarts(text) :
       EmptyQuotesAt(text, i) \/ BadCharAt(text, i) \/ BadCloseAt(text, i)
  /\ Len(ListElements(dest.data)) = 1

\* the input was read and holds no pattern occurrence
ZeroOccurrences ==
  /\ inputFile.exists /\ inputFile.readable
  /\ \A i \in 1..Len(inputFile.data) : ~WellFormedAt(inputFile.data, i)

\* C3: on an input without pattern occurrences the run is not ended by the
\* extraction (only the write can fail), and a completed run leaves the
\* opening line immediately followed by the closing line: zero elements.
C3_ZeroOccurrencesEmptyList ==
  /\ pc = "failed" /\ ZeroOccurrences =>
       err = "OSError" /\ io = <<"read", "write">>
  /\ pc = "done" /\ ZeroOccurrences =>
       /\ err = "none"
       /\ FileLines(dest.data) = <<HeaderLine, <<"]">>>>
       /\ ListElements(dest.data) = <<>>

C3_Witness ==
  /\ ZeroOccurrences
  /\ pc = "done"
  /\ MarkerStarts(text) # {}
  /\ FileLines(dest.data) = <<HeaderLine, <<"]">>>>

\* the input holds no marker call at all
NoMarkerCalls == inputFile.exists /\ inputFile.readable /\ MarkerStarts(inputFile.data) = {}

\* C4 as stated: without marker calls the file written is exactly "[\n]\n".
C4_Original ==
  pc = "done" /\ NoMarkerCalls => dest.data = <<"[", "\n", "]", "\n">>

\* C4 as amended: without marker calls the file written is exactly
\* "export const KEYWORDS = [\n]\n".
C4_EmptyListBytes ==
  pc = "done" /\ NoMarkerCalls =>
    dest.data =
      <<"e", "x", "p", "o", "r", "t", " ", "c", "o", "n", "s", "t", " ",
        "K", "E", "Y", "W", "O", "R", "D", "S", " ", "=", " ", "[", "\n",
        "]", "\n">>

C4_Witness ==
  /\ pc = "done" /\ NoMarkerCalls
  /\ Len(text) > 0
  /\ Len(dest.data) = 28

\* C5: the written text is the line "export const KEYWORDS = [", then one
\* line "  'k'," per captured keyword in order, then the line "]"; every
\* line is newline-terminated and there is one list construct, no other text.
C5_ExactFraming ==
  pc = "done" =>
    LET L == FileLines(dest.data)
        ks == Occurrences(inputFile.data)
    IN  /\ Len(L) = Len(ks) + 2
        /\ L[1] = HeaderLine
        /\ \A i \in 1..Len(ks) :
             L[i + 1] = <<" ", " ", "'">> \o ks[i] \o <<"'", ",">>
        /\ L[Len(L)] = <<"]">>
        /\ dest.data[Len(dest.data)] = "\n"
        /\ CountChar(dest.data, "[") = 1
        /\ CountChar(dest.data, "]") = 1

C5_Witness ==
  /\ pc = "done"
  /\ Len(Occurrences(inputFile.data)) = 2
  /\ Len(FileLines(dest.data)) = 4
  /\ FileLines(dest.data)[3] = <<" ", " ", "'", "a", " ", "b", "'", ",">>

\* C6: all runs on the unchanged input, however many, write the same bytes,
\* and after each completed run the destination holds exactly those bytes.
C6_Idempotent ==
  /\ \A a, b \in written : a = b
  /\ pc = "done" => dest.data \in written

C6_Witness ==
  /\ pc = "done"
  /\ Cardinality(written) = 1
  /\ Len(Occurrences(inputFile.data)) >= 1
  /\ dest = destBefore

\* the text of a list holding the keywords ks
RECURSIVE ElementsText(_)
ElementsText(ks) ==
  IF ks = <<>> THEN <<>>
  ELSE <<" ", " ", "'">> \o Head(ks) \o <<"'", ",", "\n">> \o ElementsText(Tail(ks))

ExpectedText(ks) == HeaderLine \o <<"\n">> \o ElementsText(ks) \o <<"]", "\n">>

\* C7: after a successful run the destination exists and holds the list
\* rendered from the current input and nothing else, whatever it held
\* before the run.
C7_Overwrites ==
  pc = "done" =>
    /\ dest.exists
    /\ dest.data = ExpectedText(Occurrences(inputFile.data))

C7_Witness ==
  /\ pc = "done"
  /\ destBefore.exists
  /\ Len(destBefore.data) > Len(dest.data)
  /\ dest.data = ExpectedText(<<>>)

\* C8: when the input is missing or unreadable the run makes one read
\* attempt, ends with its error, and builds and writes nothing: the
\* destination is as it was when the run started.
C8_ReadFailureLeavesDest ==
  ~(inputFile.exists /\ inputFile.readable) /\ pc # "idle" =>
    /\ pc \in {"read", "failed"}
    /\ dest = destBefore
    /\ chunks = <<>>
    /\ written = {}
    /\ pc = "failed" =>
         /\ err \in {"FileNotFoundError", "PermissionError"}
         /\ io = <<"read">>

C8_Witness ==
  /\ pc = "failed"
  /\ err = "FileNotFoundError"
  /\ ~inputFile.exists
  /\ dest.exists /\ dest.data # <<>>
  /\ dest = destBefore

\* C9: every keyword the loop emits is non-empty and made of keyword
\* characters only (no quote, backslash or newline), so every element chunk
\* is one line, and the file written for n matches has n + 2 lines.
C9_KeywordsAreOneLine ==
  /\ pc = "body" =>
       /\ m.group # <<>>
       /\ \A j \in DOMAIN m.group :
            KeywordChar(m.group[j]) /\ m.group[j] \notin {"'", "\\", "\n"}
  /\ pc \in {"write", "done"} =>
       \A i \in 2..(Len(chunks) - 1) :
         /\ CountChar(chunks[i], "\n") = 1
         /\ CountChar(chunks[i], "'") = 2
         /\ CountChar(chunks[i], "\\") = 0
  /\ pc = "done" =>
       /\ CountChar(dest.data, "\n") = (Len(chunks) - 2) + 2
       /\ Len(FileLines(dest.data)) = (Len(chunks) - 2) + 2

C9_Witness ==
  /\ pc = "done"
  /\ Len(chunks) = 4
  /\ CountChar(text, "'") + CountChar(text, "\\") + CountChar(text, "\n") > 0
  /\ CountChar(dest.data, "\n") = 4

\* how many occurrences start at or before index i
Rank(t, i) == Cardinality({ j \in 1..i : WellFormedAt(t, j) })

\* C10: an occurrence that does not start the text, whatever character
\* precedes it (an identifier character included), is captured like any
\* other: the element at its rank is its keyword.
C10_NoWordBoundary ==
  pc = "done" =>
    LET es == ListElements(dest.data) IN
    \A i \in 2..Len(inputFile.data) :
      WellFormedAt(inputFile.data, i) =>
        /\ Rank(inputFile.data, i) <= Len(es)
        /\ es[Rank(inputFile.data, i)] = KeywordAt(inputFile.data, i)

C10_Witness ==
  /\ pc = "done"
  /\ \E i \in 2..Len(text) :
       /\ WellFormedAt(text, i)
       /\ text[i - 1] = "x"
       /\ ListElements(dest.data) = <<KeywordAt(text, i)>>
====
